---- MODULE Spec2Model ----
(***************************************************************************)
(* Model of arm.py, the 2D robotic arm simulator: the closed-form inverse  *)
(* kinematics of the two-segment arm, the forward pose computed by         *)
(* draw_arm, and the main loop with its two bounded history lists          *)
(* (trail_points, mouse_path), its status line and its numeric overlays.   *)
(*                                                                         *)
(* Numbers.  Pointer positions and targets are integers (pixels), as       *)
(* pygame delivers them.  Python floats are modelled in fixed point:       *)
(* angles in units of 1/Scale radian, the values of sin and cos in units   *)
(* of 1/Scale, k1, k2 and the joint and end positions in units of 1/Scale  *)
(* pixel.  cos_angle2 is kept exactly, as its numerator over 2*L1*L2.      *)
(* Every fixed-point operation rounds to nearest, as a float operation     *)
(* does, only at a coarser grain (1e-4 instead of about 1e-16).            *)
(*                                                                         *)
(* At the base point the grain shows: the float code has                   *)
(* k2 = 150 * sin(pi) = 1.8e-14 and so theta1 = -pi/2, here k2 = 0 and     *)
(* theta1 = 0.  The elbow angle pi and the end position, the base itself,  *)
(* are the same in both.                                                   *)
(***************************************************************************)
EXTENDS Integers, Sequences, FiniteSets

\* ------------------------------------------------------------------------
\* Program constants
\* ------------------------------------------------------------------------
WIDTH == 1000
HEIGHT == 700
L1 == 150
L2 == 150
BASE_X == WIDTH \div 3
BASE_Y == HEIGHT \div 2
MAX_PATH_LENGTH == 60
MAX_TRAIL_LENGTH == 20

\* ------------------------------------------------------------------------
\* Bounds of the model
\* ------------------------------------------------------------------------
\* Frames run after the end-effector path can first be full.
ExtraTicks == 3
MaxTicks == MAX_PATH_LENGTH + ExtraTicks
\* Frames run from each target of the inverse-kinematics specification.
MaxIKTicks == 1
\* The grid of SpecIK has a target every GridStep pixels, GridReach steps
\* to each side of the base.
GridReach == 11

\* ------------------------------------------------------------------------
\* Fixed-point arithmetic standing for Python floats
\* ------------------------------------------------------------------------
Scale == 10000
\* math.pi in units of 1/Scale radian
Pi == 31416
HalfPi == Pi \div 2
QuarterPi == Pi \div 4
TwoPi == 2 * Pi

Abs(a) == IF a < 0 THEN -a ELSE a
Max(a, b) == IF a >= b THEN a ELSE b
Min(a, b) == IF a <= b THEN a ELSE b

\* a / b rounded to the nearest integer (b > 0)
RDiv(a, b) == (a + b \div 2) \div b
\* the same, rounding the magnitude (symmetric about 0)
SDiv(a, b) == IF a >= 0 THEN RDiv(a, b) ELSE -RDiv(-a, b)
\* product of two fixed-point numbers
FMul(a, b) == RDiv(a * b, Scale)

\* sin and cos on [0, pi/4] by their Taylor polynomials in Horner form
SinQ(x) ==
  LET x2 == FMul(x, x)
      a == Scale - RDiv(x2, 110)
      b == Scale - RDiv(FMul(x2, a), 72)
      c == Scale - RDiv(FMul(x2, b), 42)
      d == Scale - RDiv(FMul(x2, c), 20)
      e == Scale - RDiv(FMul(x2, d), 6)
  IN FMul(x, e)

CosQ(x) ==
  LET x2 == FMul(x, x)
      a == Scale - RDiv(x2, 90)
      b == Scale - RDiv(FMul(x2, a), 56)
      c == Scale - RDiv(FMul(x2, b), 30)
      d == Scale - RDiv(FMul(x2, c), 12)
  IN Scale - RDiv(FMul(x2, d), 2)

\* The polynomials tabulated once over [0, pi/4]
SinTab == [x \in 0..QuarterPi |-> SinQ(x)]
CosTab == [x \in 0..QuarterPi |-> CosQ(x)]

\* sin and cos on [0, pi/2]
SinH(x) == IF x <= QuarterPi THEN SinTab[x] ELSE CosTab[HalfPi - x]
CosH(x) == IF x <= QuarterPi THEN CosTab[x] ELSE SinTab[HalfPi - x]

\* sin and cos on one turn [0, 2 pi)
CosTurn ==
  [r \in 0..(TwoPi - 1) |->
     IF r <= HalfPi THEN CosH(r)
     ELSE IF r <= Pi THEN -CosH(Pi - r)
     ELSE IF r <= Pi + HalfPi THEN -CosH(r - Pi)
     ELSE CosH(TwoPi - r)]

SinTurn ==
  [r \in 0..(TwoPi - 1) |->
     IF r <= HalfPi THEN SinH(r)
     ELSE IF r <= Pi THEN SinH(Pi - r)
     ELSE IF r <= Pi + HalfPi THEN -SinH(r - Pi)
     ELSE -SinH(TwoPi - r)]

\* math.cos, math.sin: any angle, reduced modulo 2 pi
Cos(t) == CosTurn[t % TwoPi]
Sin(t) == SinTurn[t % TwoPi]

\* math.sqrt of an integer, rounded to the nearest integer
RECURSIVE ISqrtFloor(_, _, _)
ISqrtFloor(n, lo, hi) ==
  IF lo >= hi THEN lo
  ELSE LET m == (lo + hi + 1) \div 2
       IN IF m * m <= n THEN ISqrtFloor(n, m, hi) ELSE ISqrtFloor(n, lo, m - 1)

ISqrtFn ==
  [n \in Int |-> LET r == ISqrtFloor(n, 0, 46340)
                 IN IF n - r * r > r THEN r + 1 ELSE r]

ISqrt(n) == ISqrtFn[n]

\* atan of q/Scale for 0 <= q <= Scale: the angle in [0, pi/4] whose tangent
\* is nearest, found by bisection on sin(t) * Scale <= cos(t) * q
RECURSIVE AtanSearch(_, _, _)
AtanSearch(q, lo, hi) ==
  IF lo >= hi THEN lo
  ELSE LET m == (lo + hi + 1) \div 2
       IN IF SinTab[m] * Scale <= CosTab[m] * q
          THEN AtanSearch(q, m, hi) ELSE AtanSearch(q, lo, m - 1)

\* of the angle found and the next one, the one whose tangent is nearer
AtanNear ==
  [p \in Int \X Int |->
     LET q == p[1]
         t == p[2]
     IN IF /\ t < QuarterPi
           /\ Abs(SinTab[t + 1] * Scale - CosTab[t + 1] * q)
                < Abs(CosTab[t] * q - SinTab[t] * Scale)
        THEN t + 1 ELSE t]

AtanQ(q) == AtanNear[<<q, AtanSearch(q, 0, QuarterPi)>>]

AtanTab == [q \in 0..Scale |-> AtanQ(q)]

\* the power of ten that brings m under 200000, so that m * Scale fits
RECURSIVE Shrink(_)
Shrink(m) == IF m > 200000 THEN 10 * Shrink(m \div 10) ELSE 1

\* the angle of (x, y) given the angle a in [0, pi/4] between its direction
\* and the nearer axis: p = <<y, x, |y| <= |x|, a>>
Octant ==
  [p \in Int \X Int \X BOOLEAN \X Int |->
     LET y == p[1]
         x == p[2]
         b == IF p[3] THEN p[4] ELSE HalfPi - p[4]
     IN IF x >= 0 THEN (IF y >= 0 THEN b ELSE -b)
        ELSE (IF y >= 0 THEN Pi - b ELSE b - Pi)]

\* math.atan2(y, x), in (-pi, pi]; atan2(0, 0) = 0 as in Python
Atan2Fn ==
  [p \in Int \X Int |->
     LET y == p[1]
         x == p[2]
         s == Shrink(Max(Abs(x), Abs(y)))
         lo == Min(Abs(x), Abs(y)) \div s
         hi == Max(Abs(x), Abs(y)) \div s
     IN IF x = 0 /\ y = 0 THEN 0
        ELSE Octant[<<y, x, Abs(y) <= Abs(x), AtanTab[RDiv(lo * Scale, hi)]>>]]

Atan2(y, x) == Atan2Fn[<<y, x>>]

\* math.acos(num / den) for -den <= num <= den, in [0, pi]:
\* the angle of the point (num, sqrt(den^2 - num^2))
Acos(num, den) == Atan2(ISqrt(den * den - num * num), num)

\* math.degrees to two decimals, as the overlays print it ({:.2f})
Degrees(t) == SDiv(t * 18000, Pi)

\* ------------------------------------------------------------------------
\* Optional values: Python's None and a present value
\* ------------------------------------------------------------------------
None == [some |-> FALSE]
Some(v) == [some |-> TRUE, v |-> v]

\* ------------------------------------------------------------------------
\* Inverse kinematics (inverse_kinematics)
\* ------------------------------------------------------------------------
\* Fault variant: the reach test written with >= instead of >
out_of_reach_ge(x, y) == x * x + y * y >= (L1 + L2) * (L1 + L2)

\* distance > (L1 + L2), where distance = math.sqrt(x**2 + y**2): math.sqrt is
\* correctly rounded and monotone, so for integers x and y the float test
\* agrees with the comparison of the squares.
out_of_reach(x, y) == x * x + y * y > (L1 + L2) * (L1 + L2)

\* the denominator 2 * L1 * L2 of cos_angle2
CosDen == 2 * L1 * L2

\* max(-1, min(1, c)) on numerators over CosDen
clamp(num) == Max(-CosDen, Min(CosDen, num))

\* cos_angle2 before the clamp, as its numerator over CosDen
cos_raw(x, y) == x * x + y * y - L1 * L1 - L2 * L2

\* cos_angle2 as handed to math.acos, as its numerator over CosDen
cos_angle2(x, y) == clamp(cos_raw(x, y))

\* Fault variant: the other branch of the elbow, theta2 = -math.acos(cos_angle2)
elbow_up(x, y) == -Acos(clamp(x * x + y * y - L1 * L1 - L2 * L2), 2 * L1 * L2)

\* theta2 = math.acos(cos_angle2)
elbow(x, y) == Acos(cos_angle2(x, y), CosDen)

\* the rest of inverse_kinematics once theta2 is known: p = <<x, y, theta2>>
shoulder ==
  [p \in Int \X Int \X Int |->
     LET x == p[1]
         y == p[2]
         t2 == p[3]
         kk1 == L1 * Scale + L2 * Cos(t2)
         kk2 == L2 * Sin(t2)
     IN [some |-> TRUE, theta1 |-> Atan2(y, x) - Atan2(kk2, kk1), theta2 |-> t2,
         k1 |-> kk1, k2 |-> kk2]]

inverse_kinematics(x, y) ==
  IF out_of_reach(x, y) THEN None ELSE shoulder[<<x, y, elbow(x, y)>>]

\* ------------------------------------------------------------------------
\* Forward pose (draw_arm): joint and end effector in window coordinates,
\* in units of 1/Scale pixel
\* ------------------------------------------------------------------------
pose ==
  [p \in Int \X Int |->
     LET t1 == p[1]
         t2 == p[2]
         joint_x == BASE_X * Scale + L1 * Cos(t1)
         joint_y == BASE_Y * Scale - L1 * Sin(t1)
         end_x == joint_x + L2 * Cos(t1 + t2)
         end_y == joint_y - L2 * Sin(t1 + t2)
     IN [some |-> TRUE, joint |-> <<joint_x, joint_y>>, end |-> <<end_x, end_y>>]]

draw_arm(t1, t2) == pose[<<t1, t2>>]

\* ------------------------------------------------------------------------
\* The main loop's pieces
\* ------------------------------------------------------------------------
\* Fault variant: the two base coordinates swapped
target_of_swapped(p) == <<p[1] - BASE_Y, BASE_X - p[2]>>

\* target_x = mouse_x - BASE_X; target_y = BASE_Y - mouse_y
target_of(p) == <<p[1] - BASE_X, BASE_Y - p[2]>>

\* Fault variant: pop() instead of pop(0), dropping the newest entry
push_trail_pop_last(tp, p) ==
  IF Len(tp) + 1 > MAX_TRAIL_LENGTH THEN tp ELSE Append(tp, p)

\* trail_points.append(p); if len(trail_points) > MAX_TRAIL_LENGTH: pop(0)
push_trail(tp, p) ==
  LET a == Append(tp, p)
  IN IF Len(a) > MAX_TRAIL_LENGTH THEN Tail(a) ELSE a

\* Fault variant: the eviction left out
push_path_no_pop(mp, e) == Append(mp, e)

\* Fault variant: pop() instead of pop(0), dropping the newest entry
push_path_pop_last(mp, e) ==
  IF Len(mp) + 1 > MAX_PATH_LENGTH THEN mp ELSE Append(mp, e)

\* mouse_path.append(e); if len(mouse_path) > MAX_PATH_LENGTH: pop(0)
push_path(mp, e) ==
  LET a == Append(mp, e)
  IN IF Len(a) > MAX_PATH_LENGTH THEN Tail(a) ELSE a

\* Fault variant: the append moved out of the branch, so that an out-of-reach
\* frame appends the end position left over from the last drawn frame
path_step_unindented(mp, a, arm) ==
  IF a.some THEN Append(mp, arm.end)
  ELSE IF mp = <<>> THEN mp ELSE Append(mp, mp[Len(mp)])

\* the branch on "if angles:": the path grows only when the arm was drawn
path_step(mp, a, arm) == IF a.some THEN push_path(mp, arm.end) ELSE mp

\* "if angles:" a 4-tuple is true whatever its entries, None is false
truthy(a) == a.some

\* the status panel's text
status_text(a) == IF truthy(a) THEN "In Reach" ELSE "Out of Reach"

\* the four formula keys, in the order the panel lists them
Keys == {"theta2", "k1", "k2", "theta1"}

\* Fault variant: "if theta2:" for "theta2 is not None", hiding a value of 0
overlay_of_truthy(a, key, v) ==
  IF a.some /\ v.some /\ v.v # 0
  THEN Some(IF key \in {"theta1", "theta2"} THEN SDiv(v.v * 18000, Pi) ELSE SDiv(v.v, Scale \div 100))
  ELSE None

\* the numeric overlay of one formula: shown when angles is true and the
\* key's value "is not None"; the number printed with two decimals
overlay_of(a, key, v) ==
  IF truthy(a) /\ v.some
  THEN Some(IF key \in {"theta1", "theta2"} THEN Degrees(v.v) ELSE SDiv(v.v, Scale \div 100))
  ELSE None

\* ------------------------------------------------------------------------
\* The pointer: it sweeps the window at a constant velocity per frame and
\* stops at the window's edge (pygame reports positions inside the window)
\* ------------------------------------------------------------------------
Starts == {<<BASE_X, BASE_Y>>, <<BASE_X + L1, BASE_Y>>,
           <<BASE_X + 400, BASE_Y>>, <<BASE_X - 300, BASE_Y>>}
Velocities == {<<0, 0>>, <<50, 0>>, <<-50, 0>>, <<4, 3>>, <<-4, -3>>}

sweep(p, v) ==
  <<Max(0, Min(WIDTH - 1, p[1] + v[1])), Max(0, Min(HEIGHT - 1, p[2] + v[2]))>>

\* pygame's event types as the loop sees them
EventTypes == {"QUIT", "MOUSEMOTION"}

VARIABLES
  running,       \* the loop flag
  pc,            \* "while", "events", "frame", "done"
  events,        \* what the last pygame.event.get() returned
  mouse,         \* the pointer's position, as pygame.mouse.get_pos() returns it
  vel,           \* the pointer's velocity per frame
  ticks,         \* frames completed
  hist,          \* every pointer position sampled so far, in order
  trail_points,
  mouse_path,
  target,        \* <<target_x, target_y>> of the last frame
  angles,        \* the last result of inverse_kinematics
  theta1, theta2, k1, k2,
  arm,           \* what draw_arm returned in the last frame, or None
  status,        \* the status panel's text
  overlay,       \* the numeric value shown under each formula, or None
  notice,        \* "Target out of reach!" was drawn in the last frame
  total_length,  \* draw_arm's locals for the dashed line, None while unbound
  curr_dist,
  start_t, end_t,
  dash,          \* the last dash drawn, <<sx, sy, ex, ey>>
  raised         \* the exception raised, "" while none was

vars == <<running, pc, events, mouse, vel, ticks, hist, trail_points, mouse_path,
          target, angles, theta1, theta2, k1, k2, arm, status, overlay, notice,
          total_length, curr_dist, start_t, end_t, dash, raised>>

\* the locals of the dashed-line loop and the exception state
dash_vars == <<total_length, curr_dist, start_t, end_t, dash, raised>>

frame_vars == <<ticks, hist, trail_points, mouse_path, target, angles,
                theta1, theta2, k1, k2, arm, status, overlay, notice>>

InitLoop ==
  /\ running = TRUE
  /\ pc = "while"
  /\ events = {}
  /\ ticks = 0
  /\ hist = <<>>
  /\ trail_points = <<>>
  /\ mouse_path = <<>>
  /\ target = <<0, 0>>
  /\ angles = None
  /\ theta1 = None /\ theta2 = None /\ k1 = None /\ k2 = None
  /\ arm = None
  /\ status = ""
  /\ overlay = [key \in Keys |-> None]
  /\ notice = FALSE
  /\ total_length = None /\ curr_dist = None
  /\ start_t = None /\ end_t = None
  /\ dash = None
  /\ raised = ""

Init ==
  /\ InitLoop
  /\ mouse \in Starts
  /\ vel \in Velocities

\* "while running:" entered
LoopTest(cap) ==
  /\ pc = "while"
  /\ running
  /\ ticks < cap
  /\ pc' = "events"
  /\ UNCHANGED <<running, events, mouse, vel, frame_vars, dash_vars>>

\* Fault variant: the event's type not looked at, any event stops the loop
PollEvents_any ==
  /\ pc = "events"
  /\ \E evs \in SUBSET EventTypes :
       /\ events' = evs
       /\ running' = IF evs # {} THEN FALSE ELSE running
  /\ pc' = "frame"
  /\ UNCHANGED <<mouse, vel, frame_vars, dash_vars>>

\* for event in pygame.event.get(): if event.type == pygame.QUIT: running = False
PollEvents ==
  /\ pc = "events"
  /\ \E evs \in SUBSET EventTypes :
       /\ events' = evs
       /\ running' = IF "QUIT" \in evs THEN FALSE ELSE running
  /\ pc' = "frame"
  /\ UNCHANGED <<mouse, vel, frame_vars, dash_vars>>

\* what the four variables theta1, theta2, k1, k2 hold after the branch
unpack(a, key) == IF truthy(a) THEN Some(a[key]) ELSE None

\* the rest of the loop body: one frame
Frame ==
  /\ pc = "frame"
  /\ trail_points' = push_trail(trail_points, mouse)
  /\ hist' = Append(hist, mouse)
  /\ target' = target_of(mouse)
  /\ \E a \in {inverse_kinematics(target_of(mouse)[1], target_of(mouse)[2])} :
       /\ angles' = a
       /\ \E drawn \in {IF truthy(a) THEN draw_arm(a.theta1, a.theta2) ELSE None} :
            /\ arm' = drawn
            /\ mouse_path' = path_step(mouse_path, a, drawn)
       /\ theta1' = unpack(a, "theta1")
       /\ theta2' = unpack(a, "theta2")
       /\ k1' = unpack(a, "k1")
       /\ k2' = unpack(a, "k2")
       /\ notice' = ~truthy(a)
       /\ overlay' = [key \in Keys |-> overlay_of(a, key, unpack(a, key))]
       /\ status' = status_text(a)
  /\ ticks' = ticks + 1
  /\ mouse' = sweep(mouse, vel)
  /\ pc' = "while"
  /\ UNCHANGED <<running, events, vel, dash_vars>>

\* "while running:" left; pygame.quit()
Quit ==
  /\ pc = "while"
  /\ ~running
  /\ pc' = "done"
  /\ UNCHANGED <<running, events, mouse, vel, frame_vars, dash_vars>>

Next == LoopTest(MaxTicks) \/ PollEvents \/ Frame \/ Quit

Spec == Init /\ [][Next]_vars

\* The loop runs on as long as Python runs it
FairSpec == Spec /\ WF_vars(Next)

\* ------------------------------------------------------------------------
\* Inverse kinematics over a grid of targets: the pointer rests on a grid
\* point of the window, or next to the workspace boundary, for MaxIKTicks frames
\* ------------------------------------------------------------------------
GridStep == L1 \div 5

InWindow(p) == p[1] \in 0..(WIDTH - 1) /\ p[2] \in 0..(HEIGHT - 1)

GridPointers ==
  {p \in {<<BASE_X + i * GridStep, BASE_Y + j * GridStep>> :
            i \in (-GridReach)..(2 * GridReach), j \in (-GridReach)..GridReach} :
     InWindow(p)}

\* targets next to the boundary circle and next to the base
EdgeTargets ==
  {<<300, 1>>, <<1, 300>>, <<299, 24>>, <<299, 25>>, <<-299, -24>>, <<-212, 212>>,
   <<-212, -213>>, <<1, 0>>, <<0, -1>>, <<-283, 0>>}

EdgePointers == {<<BASE_X + t[1], BASE_Y - t[2]>> : t \in EdgeTargets}

InitIK ==
  /\ InitLoop
  /\ mouse \in GridPointers \cup EdgePointers
  /\ vel = <<0, 0>>

NextIK == LoopTest(MaxIKTicks) \/ PollEvents \/ Frame \/ Quit

SpecIK == InitIK /\ [][NextIK]_vars

\* ------------------------------------------------------------------------
\* The dashed base-to-end line of draw_arm, statement by statement: one
\* frame with the pointer at rest, from the branch on "if angles:" to
\* draw_arm's return.  Lengths along the line (total_length, the dash's
\* endpoints) are in units of 1/Root pixel, so that the squares under the
\* square root stay within the integers; start_t and end_t are in units of
\* 1/Scale.
\* ------------------------------------------------------------------------
dash_len == 5
gap_len == 4

Root == ISqrt(Scale)

\* a difference of positions, from units of 1/Scale to units of 1/Root pixel
coarse(d) == SDiv(d, Scale \div Root)

\* end_x - BASE_X, end_y - BASE_Y
base_to_end(e) == <<coarse(e[1] - BASE_X * Scale), coarse(e[2] - BASE_Y * Scale)>>

\* math.sqrt((end_x - BASE_X)**2 + (end_y - BASE_Y)**2)
length_of(d) == ISqrt(d[1] * d[1] + d[2] * d[2])

\* Fault variant: the loop test written with <= instead of <
dash_continues_le(curr, total) == curr * Root <= total

\* curr_dist < total_length
dash_continues(curr, total) == curr * Root < total

\* a / b on floats raises ZeroDivisionError when b is 0 (start_t, end_t)
ZeroDivision(b) == b = 0

\* a / b otherwise
fdiv(a, b) == RDiv(a * Scale, b)

\* BASE + (end - BASE) * t, for one coordinate
along(base, d, t) == base * Root + SDiv(d * t, Scale)

\* the frame up to the branch: the pointer sampled, the trail pushed, the
\* target solved
InitDash ==
  /\ mouse \in GridPointers \cup EdgePointers
  /\ vel = <<0, 0>>
  /\ running = TRUE
  /\ pc = "if_angles"
  /\ events = {}
  /\ ticks = 0
  /\ hist = <<mouse>>
  /\ trail_points = push_trail(<<>>, mouse)
  /\ mouse_path = <<>>
  /\ target = target_of(mouse)
  /\ angles = inverse_kinematics(target_of(mouse)[1], target_of(mouse)[2])
  /\ theta1 = None /\ theta2 = None /\ k1 = None /\ k2 = None
  /\ arm = None
  /\ status = ""
  /\ overlay = [key \in Keys |-> None]
  /\ notice = FALSE
  /\ total_length = None /\ curr_dist = None
  /\ start_t = None /\ end_t = None
  /\ dash = None
  /\ raised = ""

\* if angles: theta1, theta2, k1, k2 = angles; draw_arm(theta1, theta2) up to
\* the loop: the pose, total_length, curr_dist = 0
EnterDrawArm ==
  /\ pc = "if_angles"
  /\ truthy(angles)
  /\ theta1' = unpack(angles, "theta1")
  /\ theta2' = unpack(angles, "theta2")
  /\ k1' = unpack(angles, "k1")
  /\ k2' = unpack(angles, "k2")
  /\ \E drawn \in {draw_arm(angles.theta1, angles.theta2)} :
       /\ arm' = drawn
       /\ total_length' = length_of(base_to_end(drawn.end))
  /\ curr_dist' = 0
  /\ pc' = "dash_test"
  /\ UNCHANGED <<running, events, mouse, vel, ticks, hist, trail_points, mouse_path,
                 target, angles, status, overlay, notice, start_t, end_t, dash, raised>>

\* else: the four values are None and the notice is drawn; draw_arm is not called
SkipDrawArm ==
  /\ pc = "if_angles"
  /\ ~truthy(angles)
  /\ notice' = TRUE
  /\ pc' = "else"
  /\ UNCHANGED <<running, events, mouse, vel, ticks, hist, trail_points, mouse_path,
                 target, angles, theta1, theta2, k1, k2, arm, status, overlay, dash_vars>>

\* while curr_dist < total_length:
DashTest ==
  /\ pc = "dash_test"
  /\ pc' = IF dash_continues(curr_dist, total_length) THEN "dash_body" ELSE "return"
  /\ UNCHANGED <<running, events, mouse, vel, frame_vars, dash_vars>>

\* the loop body: the two divisions, the dash's endpoints, curr_dist advanced;
\* a division by 0 raises and leaves the body
DashBody ==
  /\ pc = "dash_body"
  /\ IF ZeroDivision(total_length)
     THEN /\ raised' = "ZeroDivisionError"
          /\ pc' = "raised"
          /\ UNCHANGED <<curr_dist, start_t, end_t, dash>>
     ELSE /\ \E st \in {fdiv(curr_dist * Root, total_length)} :
            \E et \in {Min(fdiv((curr_dist + dash_len) * Root, total_length), Scale)} :
              \E d \in {base_to_end(arm.end)} :
                /\ start_t' = Some(st)
                /\ end_t' = Some(et)
                /\ dash' = Some(<<along(BASE_X, d[1], st), along(BASE_Y, d[2], st),
                                  along(BASE_X, d[1], et), along(BASE_Y, d[2], et)>>)
          /\ curr_dist' = curr_dist + dash_len + gap_len
          /\ pc' = "dash_test"
          /\ UNCHANGED raised
  /\ UNCHANGED <<running, events, mouse, vel, frame_vars, total_length>>

NextDash == EnterDrawArm \/ SkipDrawArm \/ DashTest \/ DashBody

SpecDash == InitDash /\ [][NextDash]_vars

\* Python runs the next statement as long as there is one
FairDash == SpecDash /\ WF_vars(NextDash)

\* ------------------------------------------------------------------------
\* Properties
\* ------------------------------------------------------------------------
\* the pointer position sampled by the last frame
sampled == hist[Len(hist)]

\* the last n entries of a sequence
LastN(q, n) == SubSeq(q, Len(q) - n + 1, Len(q))

\* a step that is a frame of the loop
FrameStep == ticks' = ticks + 1

\* C1: a target is Reachable (inverse_kinematics returns theta1, theta2, k1, k2)
\* exactly when x^2 + y^2 <= (L1 + L2)^2 = 300^2, and Unreachable (None)
\* exactly when it is farther; the boundary and the base point are Reachable.
C1_ReachableIffWithinCircle ==
  ticks > 0 =>
    /\ target = <<sampled[1] - BASE_X, BASE_Y - sampled[2]>>
    /\ angles.some <=> target[1] * target[1] + target[2] * target[2] <= 300 * 300
    /\ angles.some => DOMAIN angles = {"some", "theta1", "theta2", "k1", "k2"}
    /\ ~angles.some => angles = None

\* a frame has solved a target on the boundary circle, off the axes
C1_Witness ==
  /\ ticks > 0
  /\ target = <<180, 240>>
  /\ angles.some

\* C2: trail_points never holds more than 20 entries and mouse_path never more
\* than 60.
C2_BuffersWithinCapacity ==
  /\ Len(trail_points) <= 20
  /\ Len(mouse_path) <= 60

\* both lists are full and a frame past both capacities has run
C2_Witness ==
  /\ ticks > MAX_PATH_LENGTH
  /\ Len(trail_points) = MAX_TRAIL_LENGTH
  /\ Len(mouse_path) = MAX_PATH_LENGTH

\* C3: after n frames trail_points is the last min(n, 20) sampled pointer
\* positions in sampling order, whatever the frames' targets were; its last
\* entry is the position the last frame sampled.
C3_TrailIsLastSamples ==
  /\ Len(hist) = ticks
  /\ trail_points = LastN(hist, Min(ticks, 20))
  /\ ticks > 0 => trail_points[Len(trail_points)] = sampled

\* the trail is full of positions that differ, entries have been evicted, and
\* the last frame's target was out of reach
C3_Witness ==
  /\ ticks > MAX_TRAIL_LENGTH + 1
  /\ trail_points[1] # trail_points[MAX_TRAIL_LENGTH]
  /\ ~angles.some

\* C4: a frame whose target is Unreachable leaves mouse_path as it was.
C4_UnreachableKeepsPath ==
  [][(FrameStep /\ ~angles'.some) => mouse_path' = mouse_path]_vars

\* the target (400, 0) was out of reach after frames that had drawn the arm
C4_Witness ==
  /\ target = <<400, 0>>
  /\ ~angles.some
  /\ notice
  /\ Len(mouse_path) > 0

\* C5: with L1 = L2 = 150 and the base at (333, 350), the pointer at (483, 350)
\* gives the target (150, 0), which is Reachable, with cos_angle2 = -1/2 and
\* theta2 = 120 degrees.
C5_Scenario ==
  /\ L1 = 150 /\ L2 = 150
  /\ <<BASE_X, BASE_Y>> = <<333, 350>>
  /\ (ticks > 0 /\ sampled = <<483, 350>>) =>
       /\ target = <<150, 0>>
       /\ angles.some
       /\ 2 * cos_angle2(target[1], target[2]) = -(2 * 150 * 150)
       /\ Degrees(angles.theta2) = 12000
       /\ overlay["theta2"] = Some(12000)

\* a frame has sampled the pointer at (483, 350)
C5_Witness ==
  /\ ticks > 0
  /\ sampled = <<483, 350>>
  /\ status = "In Reach"

\* C6: for every target that passes the reach test the value handed to
\* math.acos lies in [-1, 1] and theta2 lies in [0, pi].
C6_AcosDomainAndElbowRange ==
  (ticks > 0 /\ angles.some) =>
    /\ cos_angle2(target[1], target[2]) \in (-(2 * L1 * L2))..(2 * L1 * L2)
    /\ angles.theta2 \in 0..Pi
    /\ theta2 = Some(angles.theta2)

\* the base point itself was solved: cos_angle2 = -1, theta2 = pi
C6_Witness ==
  /\ ticks > 0
  /\ target = <<0, 0>>
  /\ angles.some
  /\ angles.theta2 = Pi

\* C8: mouse_path changes only in a frame whose target is Reachable, and then
\* by appending that frame's end-effector position as the newest entry and
\* dropping the oldest entry exactly when the list was full; the entries that
\* remain keep their values and order.
C8_PathAppendOnly ==
  [][IF FrameStep /\ angles'.some
     THEN /\ arm' = draw_arm(angles'.theta1, angles'.theta2)
          /\ mouse_path' =
               (IF Len(mouse_path) = MAX_PATH_LENGTH THEN Tail(mouse_path) ELSE mouse_path)
                 \o <<arm'.end>>
     ELSE mouse_path' = mouse_path]_vars

\* the path is full of positions that differ and the oldest has been evicted
C8_Witness ==
  /\ ticks > MAX_PATH_LENGTH
  /\ angles.some
  /\ Len(mouse_path) = MAX_PATH_LENGTH
  /\ mouse_path[1] # mouse_path[2]
  /\ mouse_path[MAX_PATH_LENGTH] = arm.end

\* C9: after every frame the status is "In Reach" exactly when
\* inverse_kinematics returned a result for the frame's pointer and
\* "Out of Reach" exactly when it returned None; out of reach no pose is drawn,
\* theta1, theta2, k1, k2 are None and no number is overlaid; in reach the pose
\* and all four numbers are there, also when they are 0, as for (300, 0); and
\* a frame that has begun can always complete.
C9_StatusAndOverlays ==
  /\ pc = "frame" => ENABLED Frame
  /\ ticks > 0 =>
       /\ angles = inverse_kinematics(sampled[1] - BASE_X, BASE_Y - sampled[2])
       /\ status = "In Reach" <=> angles # None
       /\ status = "Out of Reach" <=> angles = None
       /\ angles = None =>
            /\ arm = None /\ notice
            /\ theta1 = None /\ theta2 = None /\ k1 = None /\ k2 = None
            /\ \A key \in Keys : overlay[key] = None
       /\ angles # None =>
            /\ arm.some /\ ~notice
            /\ theta1 = Some(angles.theta1) /\ theta2 = Some(angles.theta2)
            /\ k1 = Some(angles.k1) /\ k2 = Some(angles.k2)
            /\ \A key \in Keys : overlay[key].some
       /\ target = <<300, 0>> =>
            /\ theta1 = Some(0) /\ theta2 = Some(0) /\ k2 = Some(0)
            /\ overlay["theta1"] = Some(0) /\ overlay["theta2"] = Some(0)
            /\ overlay["k2"] = Some(0)

\* the target (300, 0) was solved: three of the four numbers are 0 and shown
C9_Witness ==
  /\ ticks > 0
  /\ target = <<300, 0>>
  /\ status = "In Reach"
  /\ overlay["k2"] = Some(0)
  /\ overlay["k1"] = Some(30000)

\* C10: the loop ends only on a QUIT event.  running turns false only when an
\* event poll returns a QUIT event, and never turns true again; the frame of
\* that tick still completes; the loop is left at the next test and nothing
\* runs after it; and while running holds, whatever the frame's target, the
\* next frame begins and completes.
C10_QuitOnly ==
  /\ [][/\ running' => running
        /\ (running /\ ~running') => (pc = "events" /\ "QUIT" \in events')
        /\ (pc = "events" /\ "QUIT" \in events') => (~running' /\ pc' = "frame")
        /\ pc = "frame" => (FrameStep /\ pc' = "while" /\ running' = running)
        /\ (pc = "while" /\ ~running) => pc' = "done"
        /\ pc' = "done" => (~running /\ "QUIT" \in events)
        /\ pc # "done"]_vars
  /\ (running /\ pc = "while" /\ ticks < MaxTicks) ~> (pc = "frame")
  /\ (pc = "frame") ~> (pc = "while")

\* the loop was left after a QUIT event whose frame still ran
C10_Witness ==
  /\ pc = "done"
  /\ ~running
  /\ "QUIT" \in events
  /\ ticks > 1
  /\ Len(trail_points) = ticks

\* the statements of draw_arm from the loop on
InDash == pc \in {"dash_test", "dash_body", "return", "raised"}

\* C11: the dashed-line loop of draw_arm terminates for every pose and never
\* divides by zero.  curr_dist starts at 0 and grows by dash_len + gap_len = 9
\* in every iteration until it is >= total_length, which is at most
\* L1 + L2 = 300; the body with its divisions runs only while
\* 0 <= curr_dist < total_length, so total_length is not 0 there; and for the
\* target at the base point total_length is 0 and the body is never entered.
C11_DashLoopTerminates ==
  /\ [](raised = "" /\ pc # "raised")
  /\ [](InDash => /\ total_length \in 0..((L1 + L2) * Root)
                  /\ curr_dist \in 0..((L1 + L2) + 9 - 1)
                  /\ curr_dist % 9 = 0)
  /\ [](pc = "dash_body" => /\ 0 <= curr_dist
                            /\ curr_dist * Root < total_length
                            /\ total_length # 0)
  /\ [](pc = "return" => /\ curr_dist * Root >= total_length
                         /\ curr_dist > 0 => (curr_dist - 9) * Root < total_length)
  /\ []((InDash /\ target = <<0, 0>>) =>
          /\ arm.end = <<BASE_X * Scale, BASE_Y * Scale>>
          /\ total_length = 0
          /\ pc # "dash_body"
          /\ curr_dist = 0 /\ start_t = None /\ end_t = None /\ dash = None)
  /\ [][/\ pc = "if_angles" /\ pc' # "else" => curr_dist' = 0
        /\ pc = "dash_body" => (curr_dist' = curr_dist + 9 /\ start_t'.some /\ end_t'.some)
        /\ pc # "dash_body" => (start_t' = start_t /\ end_t' = end_t)
        /\ InDash => total_length' = total_length]_vars
  /\ (pc = "if_angles" /\ angles # None) ~> (pc = "return")

\* draw_arm returned for the target at the base point without a dash drawn
C11_Witness ==
  /\ pc = "return"
  /\ target = <<0, 0>>
  /\ angles # None
  /\ total_length = 0
  /\ curr_dist = 0
  /\ dash = None
====
